---------------------------- MODULE Spec2Model ----------------------------
(***************************************************************************)
(* Plasma-enhanced ammonia synthesis: the rate-expression evaluators       *)
(* (src/app/kinetics.py, src/data/kinetics.py), the empirical electron     *)
(* density, the reduced kinetics right-hand side and the two dashboard     *)
(* callbacks (src/app.py, src/app/callbacks.py).                           *)
(*                                                                         *)
(* Numbers.  A Python number is modelled exactly as                        *)
(*      (n / d) * 10^k * e^(xn / xd)                                       *)
(* kept in canonical form (d > 0 coprime to 10 and to n, 10 not dividing   *)
(* n, zero with k = 0 and exponent 0), so that equal numbers are equal     *)
(* records.  All the program's arithmetic on the inputs drawn below stays  *)
(* inside this domain; rounding of binary floating point is not modelled.  *)
(***************************************************************************)
EXTENDS Integers, Sequences, FiniteSets, TLC

VARIABLES
    df,          \* the rate table: a sequence of rows [Reaction, rate]
    call,        \* the last get_rate_coefficient call: evaluator and arguments
    result,      \* what that call returned
    raised,      \* TRUE when that call ended in an exception at its caller
    log,         \* the logging events that call emitted
    resolved,    \* the names eval() looked up successfully during that call
    exc,         \* the exception raised inside that call, "" when none
    dens,        \* the last saha_electron_density call and its return value
    sim,         \* the dashboard callback in progress
    kin          \* the last two plasma_kinetics calls and what they returned

vars == <<df, call, result, raised, log, resolved, exc, dens, sim, kin>>

---------------------------------------------------------------------------
(* Exact arithmetic *)

AbsInt(a) == IF a < 0 THEN -a ELSE a

RECURSIVE Gcd(_, _)
Gcd(a, b) == IF b = 0 THEN a ELSE Gcd(b, a % b)

RECURSIVE Pow10(_)
Pow10(k) == IF k = 0 THEN 1 ELSE 10 * Pow10(k - 1)

\* A rational <<p, q>> in lowest terms, q > 0.
Rat(p, q) ==
    LET s == IF q < 0 THEN -1 ELSE 1
        g == Gcd(AbsInt(p), AbsInt(q))
    IN  IF p = 0 THEN <<0, 1>> ELSE <<(s * p) \div g, (s * q) \div g>>

RatAdd(a, b) == Rat(a[1] * b[2] + b[1] * a[2], a[2] * b[2])
RatNeg(a) == <<-a[1], a[2]>>

Zero == [n |-> 0, d |-> 1, k |-> 0, x |-> <<0, 1>>]

RECURSIVE Canon(_, _, _, _)
Canon(n, d, k, x) ==
    IF n = 0 THEN Zero
    ELSE IF d % 2 = 0 THEN Canon(n * 5, d \div 2, k - 1, x)
    ELSE IF d % 5 = 0 THEN Canon(n * 2, d \div 5, k - 1, x)
    ELSE IF n % 10 = 0 THEN Canon(n \div 10, d, k + 1, x)
    ELSE [n |-> n, d |-> d, k |-> k, x |-> x]

\* (n / d) * 10^k * e^x in canonical form.
Num(n, d, k, x) ==
    LET r == Rat(n, d) IN Canon(r[1], r[2], k, x)

Lit(n, d, k) == Num(n, d, k, <<0, 1>>)
IntNum(n) == Lit(n, 1, 0)
One == IntNum(1)

NumNeg(a) == [a EXCEPT !.n = -a.n]
NumMul(a, b) == Num(a.n * b.n, a.d * b.d, a.k + b.k, RatAdd(a.x, b.x))
NumInv(a) ==
    IF a.n < 0 THEN Num(-a.d, -a.n, -a.k, RatNeg(a.x))
    ELSE Num(a.d, a.n, -a.k, RatNeg(a.x))
NumDiv(a, b) == NumMul(a, NumInv(b))

\* Addition of two numbers carrying the same power of e (or a zero).
NumAdd(a, b) ==
    IF a.n = 0 THEN b
    ELSE IF b.n = 0 THEN a
    ELSE LET m == IF a.k < b.k THEN a.k ELSE b.k
             x == CASE a.x = b.x -> a.x
         IN  Num(a.n * Pow10(a.k - m) * b.d + b.n * Pow10(b.k - m) * a.d,
                 a.d * b.d, m, x)
NumSub(a, b) == NumAdd(a, NumNeg(b))

Sign(a) == IF a.n > 0 THEN 1 ELSE IF a.n < 0 THEN -1 ELSE 0
\* a < b, decided on the sign of a - b.
NumLess(a, b) == Sign(NumSub(a, b)) < 0
NumLeq(a, b) == Sign(NumSub(a, b)) <= 0

IntOf(a) == a.n * Pow10(a.k)

RECURSIVE NumPowNat(_, _)
NumPowNat(a, m) == IF m = 0 THEN One ELSE NumMul(a, NumPowNat(a, m - 1))

\* The exact integer square root of a perfect square, -1 when there is none.
ISqrt(m) ==
    IF \E r \in 0..m : r * r = m THEN CHOOSE r \in 0..m : r * r = m ELSE -1

HasSqrt(a) ==
    /\ a.n >= 0
    /\ a.k % 2 = 0
    /\ ISqrt(a.n) >= 0
    /\ ISqrt(a.d) >= 0
NumSqrt(a) ==
    Num(ISqrt(a.n), ISqrt(a.d), a.k \div 2, Rat(a.x[1], 2 * a.x[2]))

\* a ** (p/q) for a rational exponent with q in {1, 2}.
CanPow(a, e) ==
    /\ e.x = <<0, 1>>
    /\ LET r == Rat(e.n * (IF e.k >= 0 THEN Pow10(e.k) ELSE 1),
                    e.d * (IF e.k < 0 THEN Pow10(-e.k) ELSE 1))
       IN  \/ r[2] = 1 /\ (r[1] >= 0 \/ a.n # 0)
           \/ r[2] = 2 /\ HasSqrt(a) /\ (r[1] >= 0 \/ a.n # 0)
NumPow(a, e) ==
    LET r == Rat(e.n * (IF e.k >= 0 THEN Pow10(e.k) ELSE 1),
                 e.d * (IF e.k < 0 THEN Pow10(-e.k) ELSE 1))
        b == IF r[2] = 2 THEN NumSqrt(a) ELSE a
    IN  IF r[1] >= 0 THEN NumPowNat(b, r[1])
        ELSE NumInv(NumPowNat(b, -r[1]))

\* e ** a for a number a free of e.
NumExp(a) ==
    LET r == Rat(a.n * (IF a.k >= 0 THEN Pow10(a.k) ELSE 1),
                 a.d * (IF a.k < 0 THEN Pow10(-a.k) ELSE 1))
    IN  Num(1, 1, 0, r)

\* The floats that are no numbers, marked by d = 0: the two infinities and
\* nan, with the arithmetic IEEE 754 gives them.
PInf == [n |-> 1, d |-> 0, k |-> 0, x |-> <<0, 1>>]
NInf == [n |-> -1, d |-> 0, k |-> 0, x |-> <<0, 1>>]
NaN == [n |-> 0, d |-> 0, k |-> 0, x |-> <<0, 1>>]
Finite(v) == v.d # 0
FNeg(v) == IF Finite(v) THEN NumNeg(v) ELSE [v EXCEPT !.n = -v.n]
FAdd(a, b) ==
    IF Finite(a) /\ Finite(b) THEN NumAdd(a, b)
    ELSE IF a = NaN \/ b = NaN THEN NaN
    ELSE IF Finite(a) THEN b
    ELSE IF Finite(b) \/ a = b THEN a
    ELSE NaN
FMul(a, b) ==
    IF Finite(a) /\ Finite(b) THEN NumMul(a, b)
    ELSE IF Sign(a) = 0 \/ Sign(b) = 0 THEN NaN
    ELSE IF Sign(a) = Sign(b) THEN PInf ELSE NInf
\* a / b where no exception is raised: b # 0, or numpy's division.
FDiv(a, b) ==
    IF Finite(a) /\ Finite(b) /\ b.n # 0 THEN NumDiv(a, b)
    ELSE IF a = NaN \/ b = NaN \/ (~Finite(a) /\ ~Finite(b)) THEN NaN
    ELSE IF ~Finite(b) THEN Zero
    ELSE IF Sign(a) = 0 THEN NaN
    ELSE IF Sign(a) * (IF Sign(b) < 0 THEN -1 ELSE 1) > 0 THEN PInf ELSE NInf
\* a ** b with an operand that is no number.
FPow(a, b) ==
    IF Finite(b) /\ b.n = 0 THEN One
    ELSE IF a = One THEN One
    ELSE IF a = NaN \/ b = NaN THEN NaN
    ELSE IF ~Finite(b)
         THEN LET big == IF Finite(a) THEN NumLess(One, IF a.n < 0 THEN NumNeg(a) ELSE a)
                         ELSE TRUE
                  one == Finite(a) /\ (a = One \/ a = NumNeg(One))
              IN  IF one THEN One
                  ELSE IF big = (b = PInf) THEN PInf ELSE Zero
    ELSE IF b.n < 0 THEN Zero
    ELSE IF a = NInf /\ b.d = 1 /\ b.k = 0 /\ b.n % 2 = 1 THEN NInf ELSE PInf

RECURSIVE XorNat(_, _)
XorNat(a, b) ==
    IF a = 0 THEN b
    ELSE IF b = 0 THEN a
    ELSE 2 * XorNat(a \div 2, b \div 2) + (((a % 2) + (b % 2)) % 2)

---------------------------------------------------------------------------
(* Strings.  A rate expression is a sequence of lexical tokens; a reaction *)
(* name is a sequence of characters of which only blanks are told apart.   *)

Id(s) == [t |-> "id", s |-> s, ty |-> "", v |-> Zero]
Op(s) == [t |-> "op", s |-> s, ty |-> "", v |-> Zero]
NumTok(ty, v) == [t |-> "num", s |-> "", ty |-> ty, v |-> v]

\* Python values: numbers (int or float), functions, modules.
PyNum(ty, v) == [kind |-> "num", ty |-> ty, v |-> v, fn |-> ""]
PyFunc(f) == [kind |-> "func", ty |-> "", v |-> Zero, fn |-> f]
PyModule(m) == [kind |-> "module", ty |-> "", v |-> Zero, fn |-> m]
PyFloat(v) == PyNum("float", v)
PyInt(v) == PyNum("int", v)

\* str(x) of a non-negative number: the literal that reads back as x.
PyStr(x) == <<NumTok(x.ty, x.v)>>

\* s.replace(old, new) on tokens: every token equal to old becomes new.
RECURSIVE Replace(_, _, _)
Replace(s, old, new) ==
    IF s = <<>> THEN <<>>
    ELSE (IF Head(s) = old THEN new ELSE <<Head(s)>>) \o Replace(Tail(s), old, new)

\* old in s, for an identifier or operator old.
Contains(s, old) == \E i \in 1..Len(s) : s[i] = old

BlankCh == " "
RECURSIVE LStrip(_)
LStrip(s) == IF s # <<>> /\ Head(s) = BlankCh THEN LStrip(Tail(s)) ELSE s
RECURSIVE RStrip(_)
RStrip(s) ==
    IF s # <<>> /\ s[Len(s)] = BlankCh THEN RStrip(SubSeq(s, 1, Len(s) - 1)) ELSE s
\* str.strip()
Strip(s) == RStrip(LStrip(s))

---------------------------------------------------------------------------
(* eval(): Python's expression grammar over the tokens, evaluated as it    *)
(* is parsed.  A syntax error ends the parse (nothing was evaluated); a    *)
(* run-time error is kept while the parse goes on, so that a later syntax  *)
(* error still wins, as it does when Python compiles before it evaluates.  *)

Dummy == PyInt(Zero)
SynErr == [syn |-> FALSE, err |-> "SyntaxError", val |-> Dummy, pos |-> 0, names |-> {}]
Got(val, pos, names) ==
    [syn |-> TRUE, err |-> "", val |-> val, pos |-> pos, names |-> names]
RunErr(e, pos, names) ==
    [syn |-> TRUE, err |-> e, val |-> Dummy, pos |-> pos, names |-> names]

\* The token at pos, an end mark after the last one.
Peek(toks, pos) ==
    IF pos <= Len(toks) THEN toks[pos] ELSE [t |-> "end", s |-> "", ty |-> "", v |-> Zero]

\* The type of the result: numpy's float if an operand is one.
NumTy(a, b) ==
    IF a.ty = "float64" \/ b.ty = "float64" THEN "float64"
    ELSE IF a.ty = "int" /\ b.ty = "int" THEN "int" ELSE "float"

\* One binary operation on two Python values: [err, val].
BinOp(op, a, b) ==
    IF a.kind # "num" \/ b.kind # "num" THEN [err |-> "TypeError", val |-> Dummy]
    ELSE CASE op = "+" -> [err |-> "", val |-> PyNum(NumTy(a, b), FAdd(a.v, b.v))]
           [] op = "-" -> [err |-> "", val |-> PyNum(NumTy(a, b), FAdd(a.v, FNeg(b.v)))]
           [] op = "*" -> [err |-> "", val |-> PyNum(NumTy(a, b), FMul(a.v, b.v))]
           [] op = "/" ->
                IF b.v = Zero /\ NumTy(a, b) # "float64"
                THEN [err |-> "ZeroDivisionError", val |-> Dummy]
                ELSE [err |-> "",
                      val |-> PyNum(IF NumTy(a, b) = "float64" THEN "float64" ELSE "float",
                                    FDiv(a.v, b.v))]
           [] op = "**" ->
                IF ~Finite(a.v) \/ ~Finite(b.v)
                THEN [err |-> "", val |-> PyNum(NumTy(a, b), FPow(a.v, b.v))]
                ELSE IF a.v.n = 0 /\ b.v.n < 0
                THEN IF NumTy(a, b) = "float64"
                     THEN [err |-> "", val |-> PyNum("float64", PInf)]
                     ELSE [err |-> "ZeroDivisionError", val |-> Dummy]
                ELSE (CASE CanPow(a.v, b.v) ->
                       [err |-> "",
                        val |-> PyNum(IF NumTy(a, b) = "int" /\ b.v.n < 0
                                      THEN "float" ELSE NumTy(a, b),
                                      NumPow(a.v, b.v))])
           [] op = "^" ->
                IF a.ty # "int" \/ b.ty # "int"
                THEN [err |-> "TypeError", val |-> Dummy]
                ELSE (CASE a.v.n >= 0 /\ b.v.n >= 0 ->
                       [err |-> "",
                        val |-> PyInt(IntNum(XorNat(IntOf(a.v), IntOf(b.v))))])

\* The outcome of an operation at position pos: its error or its value.
Outcome(r, pos, names) ==
    IF r.err # "" THEN RunErr(r.err, pos, names) ELSE Got(r.val, pos, names)

\* Combine the results of the two operands, the left one evaluated first.
Combine(op, L, R) ==
    IF ~R.syn THEN SynErr
    ELSE IF L.err # "" THEN RunErr(L.err, R.pos, L.names)
    ELSE IF R.err # "" THEN RunErr(R.err, R.pos, L.names \cup R.names)
    ELSE Outcome(BinOp(op, L.val, R.val), R.pos, L.names \cup R.names)

\* f(arg)
CallFn(f, arg) ==
    IF f.kind # "func" THEN [err |-> "TypeError", val |-> Dummy]
    ELSE IF arg.kind # "num" THEN [err |-> "TypeError", val |-> Dummy]
    ELSE CASE f.fn = "exp" ->
                \* np.exp: a numpy float; above the largest double (e**709.78...)
                \* inf and a RuntimeWarning of numpy, below the smallest 0.0.
                (CASE arg.v.x = <<0, 1>> ->
                   [err |-> "",
                    val |-> PyNum("float64",
                                  IF ~Finite(arg.v)
                                  THEN (IF arg.v = NInf THEN Zero ELSE arg.v)
                                  ELSE IF NumLeq(IntNum(710), arg.v) THEN PInf
                                  ELSE IF NumLeq(arg.v, IntNum(-746)) THEN Zero
                                  ELSE NumExp(arg.v))])
           [] f.fn = "abs" ->
                [err |-> "", val |-> PyNum(arg.ty, IF arg.v.n < 0 THEN FNeg(arg.v) ELSE arg.v)]

\* The grammar, loosest binding first:
\*     xor    ::= arith ("^" arith)*
\*     arith  ::= term (("+" | "-") term)*
\*     term   ::= factor (("*" | "/") factor)*
\*     factor ::= ("-" | "+") factor | power
\*     power  ::= atom ["**" factor]
\*     atom   ::= (number | name | "(" xor ")") ("(" [xor] ")")*
\* For each binary rule: its first operand and the rule of what follows it;
\* for what follows: the operators, the right operand, and the rule that goes
\* on after an operator was applied.
Grammar ==
    [xor |-> [operand |-> "arith", rest |-> "xor_rest"],
     arith |-> [operand |-> "term", rest |-> "arith_rest"],
     term |-> [operand |-> "factor", rest |-> "term_rest"],
     power |-> [operand |-> "atom", rest |-> "power_rest"],
     xor_rest |-> [operators |-> {"^"}, operand |-> "arith", rest |-> "xor_rest"],
     arith_rest |-> [operators |-> {"+", "-"}, operand |-> "term", rest |-> "arith_rest"],
     term_rest |-> [operators |-> {"*", "/"}, operand |-> "factor", rest |-> "term_rest"],
     power_rest |-> [operators |-> {"**"}, operand |-> "factor", rest |-> "done"]]

\* A rule starts at position pos with nothing evaluated yet.
Start(pos) == Got(Dummy, pos, {})

\* -x and +x
Signed(tk, R) ==
    IF ~R.syn THEN SynErr
    ELSE IF R.err # "" THEN R
    ELSE IF R.val.kind # "num" THEN RunErr("TypeError", R.pos, R.names)
    ELSE Got(IF tk = Op("-") THEN PyNum(R.val.ty, FNeg(R.val.v)) ELSE R.val, R.pos, R.names)

\* A name, or the attribute np.exp of the module np.
NameLookup(tk, pos, env) ==
    LET name == IF tk.s = "np.exp" THEN "np" ELSE tk.s IN
    IF name \notin DOMAIN env THEN RunErr("NameError", pos + 1, {})
    ELSE IF tk.s = "np.exp"
         THEN IF env[name].kind = "module" THEN Got(PyFunc("exp"), pos + 1, {name})
              ELSE RunErr("AttributeError", pos + 1, {name})
         ELSE Got(env[name], pos + 1, {name})

\* The ")" that closes the expression E.
Closed(toks, E) ==
    IF ~E.syn \/ Peek(toks, E.pos) # Op(")") THEN SynErr ELSE [E EXCEPT !.pos = E.pos + 1]

\* The call L(A), A ending before its ")".
Apply(toks, L, A) ==
    IF ~A.syn \/ Peek(toks, A.pos) # Op(")") THEN SynErr
    ELSE IF L.err # "" THEN RunErr(L.err, A.pos + 1, L.names)
    ELSE IF A.err # "" THEN RunErr(A.err, A.pos + 1, L.names \cup A.names)
    ELSE Outcome(CallFn(L.val, A.val), A.pos + 1, L.names \cup A.names)

\* Rule `rule` applied at L.pos; L is what was evaluated to the left of it.
RECURSIVE Ev(_, _, _, _)
Ev(rule, toks, L, env) ==
    IF ~L.syn THEN SynErr
    ELSE CASE rule \in {"xor", "arith", "term", "power"} ->
                Ev(Grammar[rule].rest, toks, Ev(Grammar[rule].operand, toks, L, env), env)
           [] rule \in {"xor_rest", "arith_rest", "term_rest", "power_rest"} ->
                IF Peek(toks, L.pos) \in {Op(o) : o \in Grammar[rule].operators}
                THEN Ev(Grammar[rule].rest, toks,
                        Combine(Peek(toks, L.pos).s, L,
                                Ev(Grammar[rule].operand, toks, Start(L.pos + 1), env)),
                        env)
                ELSE L
           [] rule = "done" -> L
           [] rule = "factor" ->
                IF Peek(toks, L.pos) \in {Op("-"), Op("+")}
                THEN Signed(Peek(toks, L.pos), Ev("factor", toks, Start(L.pos + 1), env))
                ELSE Ev("power", toks, L, env)
           [] rule = "atom" ->
                CASE Peek(toks, L.pos).t = "num" ->
                       Ev("trailer", toks,
                          Got(PyNum(Peek(toks, L.pos).ty, Peek(toks, L.pos).v), L.pos + 1, {}),
                          env)
                  [] Peek(toks, L.pos).t = "id" ->
                       Ev("trailer", toks, NameLookup(Peek(toks, L.pos), L.pos, env), env)
                  [] Peek(toks, L.pos) = Op("(") ->
                       Ev("trailer", toks,
                          Closed(toks, Ev("xor", toks, Start(L.pos + 1), env)), env)
                  [] OTHER -> SynErr
           [] rule = "trailer" ->
                IF Peek(toks, L.pos) # Op("(") THEN L
                ELSE IF Peek(toks, L.pos + 1) = Op(")")
                     THEN Ev("trailer", toks,
                             IF L.err # "" THEN [L EXCEPT !.pos = L.pos + 2]
                             ELSE RunErr("TypeError", L.pos + 2, L.names), env)
                     ELSE Ev("trailer", toks,
                             Apply(toks, L, Ev("xor", toks, Start(L.pos + 1), env)), env)

\* The whole source must have been consumed.
Whole(toks, E) ==
    IF ~E.syn \/ E.pos # Len(toks) + 1
    THEN [err |-> "SyntaxError", val |-> Dummy, names |-> {}]
    ELSE [err |-> E.err, val |-> E.val, names |-> E.names]

\* eval(source, globals): [err, val, names].  err = "" when a value came out.
PyEval(toks, env) == Whole(toks, Ev("xor", toks, Start(1), env))

---------------------------------------------------------------------------
(* The rate table and the two evaluators *)

\* A cell of the rate column: a string (isstr) or a number pandas parsed.
StrCell(toks) == [isstr |-> TRUE, toks |-> toks, num |-> Dummy]
NumCell(v) == [isstr |-> FALSE, toks |-> <<>>, num |-> PyFloat(v)]
Row(name, cell) == [Reaction |-> name, rate |-> cell]

LogEvent(level, what) == [level |-> level, what |-> what]
\* The end of a call: the value returned (or an exception at the caller),
\* the events logged, the names eval() resolved, and the exception that
\* was raised inside the call, "" when there was none.
Returned(val, events, names, fault) ==
    [ret |-> val, raised |-> FALSE, log |-> events, names |-> names, fault |-> fault]

\* What Python adds to the globals of eval() when they hold no __builtins__.
EvalNamespace(globals) ==
    IF "__builtins__" \in DOMAIN globals THEN globals
    ELSE globals @@ [b \in {"abs", "__import__"} |-> PyFunc(b)]

\* float(x) of a string: a literal with an optional sign, else ValueError.
IsFloatLiteral(toks) ==
    \/ Len(toks) = 1 /\ toks[1].t = "num"
    \/ Len(toks) = 2 /\ toks[1] \in {Op("-"), Op("+")} /\ toks[2].t = "num"
FloatOfStr(toks) ==
    IF Len(toks) = 1 THEN PyFloat(toks[1].v)
    ELSE IF toks[1] = Op("-") THEN PyFloat(NumNeg(toks[2].v)) ELSE PyFloat(toks[2].v)

\* ---- src/app/kinetics.py ----

\* df[df['Reaction'].str.strip() == reaction.strip()]
AppLookup_NoQueryStrip(reaction, table) ==
    SelectSeq(table, LAMBDA r : Strip(r.Reaction) = reaction)
AppLookup(reaction, table) ==
    SelectSeq(table, LAMBDA r : Strip(r.Reaction) = Strip(reaction))

AppSubstitute(rate_expr, T_e, T_g, E_v) ==
    Replace(Replace(Replace(Replace(rate_expr, Id("exp"), <<Id("np.exp")>>),
                            Id("T_g"), PyStr(T_g)),
                    Id("E_v"), PyStr(E_v)),
            Id("T_e"), PyStr(T_e))

AppGlobals(T_e, T_g, E_v) ==
    [g \in {"np", "T_g", "T_e", "E_v"} |->
        CASE g = "np" -> PyModule("numpy")
          [] g = "T_g" -> T_g
          [] g = "T_e" -> T_e
          [] g = "E_v" -> E_v]

\* except Exception as e: logging.warning(...); return 0.0
AppCaught(fault, names) ==
    Returned(PyFloat(Zero), <<LogEvent("WARNING", "eval-failed")>>, names, fault)

\* return float(rate) of what eval() gave, inside the try.
AppFloat(e) ==
    IF e.err # "" THEN AppCaught(e.err, e.names)
    ELSE IF e.val.kind # "num" THEN AppCaught("TypeError", e.names)
    ELSE Returned(PyFloat(e.val.v), <<>>, e.names, "")

\* The string branch: substitute, eval, float(rate).
AppEvaluate(rate_expr, T_e, T_g, E_v) ==
    AppFloat(PyEval(AppSubstitute(rate_expr, T_e, T_g, E_v),
                    EvalNamespace(AppGlobals(T_e, T_g, E_v))))

AppGetRateCoefficient(reaction, table, T_e, T_g, E_v) ==
    LET rate_data == AppLookup(reaction, table) IN
    IF rate_data = <<>>
    THEN Returned(PyFloat(Zero), <<LogEvent("WARNING", "not-found")>>, {}, "")
    ELSE LET rate_expr == rate_data[1].rate IN
         IF rate_expr.isstr THEN AppEvaluate(rate_expr.toks, T_e, T_g, E_v)
         ELSE Returned(PyFloat(rate_expr.num.v), <<>>, {}, "")

\* ---- src/data/kinetics.py ----

\* df[df['Reaction'] == reaction]
DataLookup(reaction, table) == SelectSeq(table, LAMBDA r : r.Reaction = reaction)

\* row.empty: logging.warning(...); return 0.  Without the test,
\* row['Value'].iloc[0] raises IndexError at the caller.
DataNotFound_NoEmptyTest ==
    [ret |-> Dummy, raised |-> TRUE, log |-> <<>>, names |-> {}, fault |-> "IndexError"]
DataNotFound == Returned(PyInt(Zero), <<LogEvent("WARNING", "not-found")>>, {}, "")

DataGlobals(T_e, T_g) ==
    [g \in {"Te", "Tg", "exp"} |->
        CASE g = "Te" -> T_e
          [] g = "Tg" -> T_g
          [] g = "exp" -> PyFunc("exp")]

\* The value is returned as eval() gave it; except Exception as e:
\* logging.error(...); return 0
DataResult(e) ==
    IF e.err = "" THEN Returned(e.val, <<LogEvent("DEBUG", "rate")>>, e.names, "")
    ELSE Returned(PyInt(Zero), <<LogEvent("ERROR", "eval-failed")>>, e.names, e.err)

\* The eval branch.
DataEvaluate(value, T_e, T_g) ==
    DataResult(PyEval(Replace(value, Op("^"), <<Op("**")>>),
                      EvalNamespace(DataGlobals(T_e, T_g))))

\* The float(value) branch.
DataCast(value) ==
    IF ~value.isstr THEN Returned(PyFloat(value.num.v), <<LogEvent("DEBUG", "rate")>>, {}, "")
    ELSE IF IsFloatLiteral(value.toks)
         THEN Returned(FloatOfStr(value.toks), <<LogEvent("DEBUG", "rate")>>, {}, "")
         ELSE Returned(PyInt(Zero), <<LogEvent("WARNING", "cast-failed")>>, {}, "ValueError")

DataGetRateCoefficient(reaction, table, T_e, T_g) ==
    LET row == DataLookup(reaction, table) IN
    IF row = <<>> THEN DataNotFound
    ELSE LET value == row[1].rate IN
         IF value.isstr /\ (Contains(value.toks, Id("Te")) \/ Contains(value.toks, Id("Tg")))
         THEN DataEvaluate(value.toks, T_e, T_g)
         ELSE DataCast(value)

---------------------------------------------------------------------------
(* The empirical electron density, src/app/kinetics.py *)

\* max(a, b) of Python: b when b > a, else a.
PyMin(a, b) == IF NumLess(b, a) THEN b ELSE a
PyMax(a, b) == IF NumLess(a, b) THEN b ELSE a

n_e_base == Lit(1, 1, 11)
n_e_floor == Lit(1, 1, 10)

\* n_e_base * scaling_factor * (T_e / 2.0) ** 1.5
EmpiricalDensity_NoPower(T_e, power_density) ==
    NumMul(n_e_base, NumPow(NumDiv(T_e, IntNum(2)), Lit(15, 1, -1)))
EmpiricalDensity(T_e, power_density) ==
    LET scaling_factor == NumDiv(power_density, One)
    IN  NumMul(NumMul(n_e_base, scaling_factor),
               NumPow(NumDiv(T_e, IntNum(2)), Lit(15, 1, -1)))

SahaElectronDensity(T_e, power_density) ==
    PyMax(EmpiricalDensity(T_e, power_density), n_e_floor)

---------------------------------------------------------------------------
(* Sums of terms that differ in their power of e or of 10: a set of       *)
(* numbers no two of which agree in both, none of them zero; {} is 0.  A   *)
(* sum is 0 only if it is {}: terms with different powers of e are         *)
(* independent, and in one power of e the term of the lowest power of 10   *)
(* cannot be cancelled by the others.                                      *)

RECURSIVE PolyInsert(_, _)
PolyInsert(m, p) ==
    IF m.n = 0 THEN p
    ELSE IF \E q \in p : q.x = m.x /\ q.k = m.k
         THEN LET q == CHOOSE q \in p : q.x = m.x /\ q.k = m.k
              IN  PolyInsert(NumAdd(m, q), p \ {q})
         ELSE p \cup {m}
RECURSIVE SumOf(_)
SumOf(terms) ==
    IF terms = <<>> THEN {} ELSE PolyInsert(Head(terms), SumOf(Tail(terms)))

Mul3(a, b, c) == NumMul(NumMul(a, b), c)

---------------------------------------------------------------------------
(* The kinetics right-hand sides *)

\* src/data/kinetics.py, reduced variant: y = [N, H2, NH, NH2, NH3, N2].
\* The rates dictionary: the name each lookup asks for and the two
\* temperatures it hands over are those of the code (T_g is 300 where the
\* call leaves it out).
ReducedLookups(T_e, T_g) ==
    <<[name |-> "N + H2 -> NH + H", T_e |-> T_e, T_g |-> T_g],
      [name |-> "e + NH3 -> NH2 + H", T_e |-> T_e, T_g |-> PyInt(IntNum(300))],
      [name |-> "H2 + NH2 -> NH3 + H", T_e |-> T_g, T_g |-> PyInt(IntNum(300))],
      [name |-> "NH + NH2 -> NH3 + N", T_e |-> T_g, T_g |-> PyInt(IntNum(300))],
      [name |-> "e + NH3 -> NH + H2", T_e |-> T_e, T_g |-> PyInt(IntNum(300))]>>

\* dN/dt .. dN2/dt from the five rate coefficients k.
ReducedDerivatives(y, n_e, k) ==
    LET N == y[1]
        H2 == y[2]
        NH == y[3]
        NH2 == y[4]
        NH3 == y[5]
        N2 == y[6]
        k_N_H2 == k[1]
        k_e_NH3_a == k[2]
        k_H_NH2 == k[3]
        k_NH_NH2 == k[4]
        k_e_NH3_b == k[5]
    IN  <<SumOf(<<NumNeg(Mul3(k_N_H2, N, H2)), Mul3(k_NH_NH2, N, NH2)>>),
          SumOf(<<NumNeg(Mul3(k_N_H2, N, H2)), NumMul(k_H_NH2, NH2),
                  Mul3(k_e_NH3_b, n_e, NH3)>>),
          SumOf(<<Mul3(k_N_H2, N, H2), NumNeg(Mul3(k_NH_NH2, N, NH2)),
                  Mul3(k_e_NH3_b, n_e, NH3)>>),
          SumOf(<<Mul3(k_e_NH3_a, n_e, NH3), NumNeg(NumMul(k_H_NH2, NH2)),
                  NumNeg(Mul3(k_NH_NH2, N, NH2))>>),
          SumOf(<<NumMul(k_H_NH2, NH2), Mul3(k_NH_NH2, N, NH2),
                  NumNeg(Mul3(k_e_NH3_a, n_e, NH3)), NumNeg(Mul3(k_e_NH3_b, n_e, NH3))>>),
          {}>>

\* A variant in which N2 is not inert: electron impact consumes it at 1e-9.
DataPlasmaKinetics_N2Loss(y, t, table, T_e, T_g, n_e) ==
    [ReducedDerivatives(y, n_e,
        [i \in 1..5 |->
            DataGetRateCoefficient(<<ReducedLookups(T_e, T_g)[i].name>>, table,
                                   ReducedLookups(T_e, T_g)[i].T_e,
                                   ReducedLookups(T_e, T_g)[i].T_g).ret.v])
        EXCEPT ![6] = SumOf(<<NumNeg(Mul3(Lit(1, 1, -9), n_e, y[6]))>>)]

DataPlasmaKinetics(y, t, table, T_e, T_g, n_e) ==
    ReducedDerivatives(y, n_e,
        [i \in 1..5 |->
            DataGetRateCoefficient(<<ReducedLookups(T_e, T_g)[i].name>>, table,
                                   ReducedLookups(T_e, T_g)[i].T_e,
                                   ReducedLookups(T_e, T_g)[i].T_g).ret.v])

\* src/app/kinetics.py, extended variant: y = [N, H, H2, NH, NH2, NH3, N2].
\* The reactions of k1 .. k7, looked up with E_v left at its default 0.
ExtendedLookups ==
    <<"N + H2(v) -> H + NH", "NH3 + M -> NH2 + H + M", "NH2 + H -> NH3",
      "N + NH2 -> NH + NH", "N + H -> NH", "NH + H -> NH2", "H + NH2 -> H2 + NH">>

\* The derivatives from the seven coefficients K as they were looked up.
ExtendedDerivatives(y, T_e, n_e, catalyst_factor, K) ==
    LET N == y[1]
        H == y[2]
        H2 == y[3]
        NH == y[4]
        NH2 == y[5]
        NH3 == y[6]
        N2 == y[7]
        k1 == NumMul(K[1], Lit(1, 1, 3))
        k2 == NumMul(K[2], Lit(1, 1, -2))
        k3 == NumMul(NumMul(K[3], Lit(1, 1, 3)), catalyst_factor)
        k4 == NumMul(K[4], Lit(1, 1, 3))
        k5 == NumMul(K[5], Lit(1, 1, 3))
        k6 == NumMul(K[6], Lit(1, 1, 3))
        k7 == NumMul(K[7], Lit(1, 1, 3))
        k_diss_N2 == NumMul(Lit(1, 1, -9), NumExp(NumDiv(IntNum(-9), T_e.v)))
        k_diss_H2 == NumMul(Lit(1, 1, -9), NumExp(NumDiv(IntNum(-8), T_e.v)))
        r1 == Mul3(k1, N, H2)
        r2 == NumMul(k2, NH3)
        r3 == Mul3(k3, NH2, H)
        r4 == Mul3(k4, N, NH2)
        r5 == Mul3(k5, N, H)
        r6 == Mul3(k6, NH, H)
        r7 == Mul3(k7, H, NH2)
        r_diss_N2 == Mul3(k_diss_N2, n_e, N2)
        r_diss_H2 == Mul3(k_diss_H2, n_e, H2)
    IN  <<SumOf(<<NumNeg(r1), NumNeg(r4), NumNeg(r5), NumMul(IntNum(2), r_diss_N2)>>),
          SumOf(<<r1, r2, NumNeg(r3), NumNeg(r5), NumNeg(r6), NumNeg(r7),
                  NumMul(IntNum(2), r_diss_H2)>>),
          SumOf(<<NumNeg(r1), r7, NumNeg(r_diss_H2)>>),
          SumOf(<<r1, r4, r7, r5, NumNeg(r6)>>),
          SumOf(<<r2, r6, NumNeg(r3), NumNeg(r4), NumNeg(r7)>>),
          SumOf(<<r3, NumNeg(r2)>>),
          SumOf(<<NumNeg(r_diss_N2)>>)>>

\* A variant that keeps state: the dissociation terms read the electron
\* temperature the last get_rate_coefficient call left behind.
AppPlasmaKinetics_LastTe(t, y, table, T_e, T_g, n_e, catalyst_factor) ==
    ExtendedDerivatives(y, IF call.ev = "none" THEN T_e ELSE call.T_e, n_e, catalyst_factor,
        [i \in 1..7 |->
            AppGetRateCoefficient(<<ExtendedLookups[i]>>, table, T_e, T_g,
                                  PyInt(Zero)).ret.v])

AppPlasmaKinetics(t, y, table, T_e, T_g, n_e, catalyst_factor) ==
    ExtendedDerivatives(y, T_e, n_e, catalyst_factor,
        [i \in 1..7 |->
            AppGetRateCoefficient(<<ExtendedLookups[i]>>, table, T_e, T_g,
                                  PyInt(Zero)).ret.v])

---------------------------------------------------------------------------
(* The two dashboards: solver, figures, export *)

\* src/data/kinetics.py: 2*(2*pi*m_e*k*T_k/h**2)**1.5 * exp(-I/T_e) * n_a
\* with T_k = T_e/k.  The factor in front of the exponential holds pi**1.5
\* and the root of T_e, which the exact numbers cannot carry; it is positive
\* and finite for every positive T_e (2.7e56 at 2 eV with the constants of
\* the source), and the model leaves its magnitude open between these two.
SahaPrefactors == {Lit(1, 1, 50), Lit(1, 1, 60)}
PhysicalElectronDensity(T_e, I_ion, n_a) ==
    {Mul3(c, NumExp(NumDiv(NumNeg(I_ion), T_e)), n_a) : c \in SahaPrefactors}

\* One row of a solver's output: the state vector where the model can tell
\* it, a row of unknown numbers otherwise.
Known(y) == [known |-> TRUE, y |-> y]
Unknown == [known |-> FALSE, y |-> <<>>]

AtEquilibrium(dydt) == \A i \in DOMAIN dydt : dydt[i] = {}

\* scipy.integrate.odeint(func, y0, t): one row per requested time whatever
\* happens, the first being y0.  Where func(y0) = 0 every method leaves y0
\* unchanged and cannot fail; elsewhere the later rows are numbers the model
\* does not compute, and a run that does not converge only prints a warning.
Odeint(dydt0, y0, npoints, converged) ==
    [status |-> IF AtEquilibrium(dydt0) \/ converged THEN "ok" ELSE "failed",
     y |-> [i \in 1..npoints |->
                IF i = 1 \/ AtEquilibrium(dydt0) THEN Known(y0) ELSE Unknown]]

\* scipy.integrate.solve_ivp(func, t_span, y0, method='BDF', t_eval=...):
\* a run whose step fails stops with status -1 and success False and
\* returns the rows of the times reached before (none if the first step
\* failed); nothing is raised.
SolveIvp(dydt0, y0, npoints, converged, reached) ==
    [status |-> IF AtEquilibrium(dydt0) \/ converged THEN "ok" ELSE "failed",
     y |-> [i \in 1..(IF AtEquilibrium(dydt0) \/ converged THEN npoints ELSE reached) |->
                IF i = 1 \/ AtEquilibrium(dydt0) THEN Known(y0) ELSE Unknown]]

\* src/data/data_export.py: one column per species and the time column, one
\* line per row of the solution.
ExportSimulationData(sol, species) ==
    [columns |-> species \o <<"Time (ms)">>, rows |-> Len(sol)]

\* src/app.py: NH3_produced is a numpy float, so a zero divisor gives inf
\* (and a RuntimeWarning), not an exception.
EnergyEfficiency(NH3_produced, power_density) ==
    IF NH3_produced = Zero
    THEN [kind |-> "inf", v |-> Zero]
    ELSE [kind |-> "num",
          v |-> NumDiv(NumDiv(Mul3(power_density, Lit(1, 1, 6), IntNum(3600)),
                              NumMul(NH3_produced, Lit(6022, 1, 20))),
                       Lit(1, 1, 6))]

\* load_and_clean_data: read_csv gives a column of numbers when every cell
\* of it is a number, and .str on such a column raises AttributeError;
\* otherwise every cell is text, and the rows whose cell is empty are dropped.
LoadAndCleanData(file) ==
    IF file # <<>> /\ \A i \in DOMAIN file : ~file[i].rate.isstr
    THEN [raised |-> TRUE, df |-> <<>>]
    ELSE [raised |-> FALSE,
          df |-> SelectSeq(file, LAMBDA row : row.rate.isstr /\ row.rate.toks # <<>>)]

NoDownload == [columns |-> <<>>, rows |-> -1]
Figures(npoints, efficiency, heatmap, download) ==
    [kind |-> "figures", points |-> npoints, efficiency |-> efficiency,
     heatmap |-> heatmap, download |-> download]
\* What Dash answers when the callback raises.
CallbackError(fault) ==
    [kind |-> "error", points |-> 0, efficiency |-> fault, heatmap |-> <<>>,
     download |-> NoDownload]

ReducedSpecies == <<"N", "H2", "NH", "NH2", "NH3", "N2">>
ExtendedSpecies == <<"N", "H", "H2", "NH", "NH2", "NH3", "N2">>
total_density == Lit(1, 1, 16)
NumSamples == 100
TimePoints == 100

N2_0(total, ratio) ==
    NumMul(total, NumDiv(One, NumAdd(One, NumMul(IntNum(3), ratio))))
H2_0(total, ratio) ==
    NumMul(total, NumDiv(NumMul(IntNum(3), ratio), NumAdd(One, NumMul(IntNum(3), ratio))))

\* What one run of a callback leaves: the density and the initial state it
\* used, the solver's status and rows, and the answer to the browser.
RunOf(n_e, y0, sol, response) ==
    [n_e |-> n_e, y0 |-> y0, status |-> sol.status, sol |-> sol.y, response |-> response]
\* load_and_clean_data raised: nothing was computed.
LoadFailed ==
    [n_e |-> Zero, y0 |-> <<>>, status |-> "none", sol |-> <<>>,
     response |-> CallbackError("AttributeError")]

\* src/app.py: the figures and the download from the solution;
\* NH3_produced = sol[-1, 4].
ReducedFigures(power_density, n_clicks, n_e, y0, sol, sensitivities) ==
    RunOf(n_e, y0, sol,
          Figures(Len(sol.y),
                  IF sol.y[NumSamples].known
                  THEN EnergyEfficiency(sol.y[NumSamples].y[5], power_density)
                  ELSE [kind |-> "unknown", v |-> Zero],
                  sensitivities,
                  IF n_clicks # 0 THEN ExportSimulationData(sol.y, ReducedSpecies)
                  ELSE NoDownload))

\* update_dashboard of src/app.py (reduced variant, odeint).  n_clicks is 0
\* for the None of a button never clicked.  The heat map holds four
\* reactions at T_e = 1, 2, 3, 4, 5 eV.
ReducedDashboard(T_e, ratio, power_density, T_g, n_clicks, file, n_e, converged) ==
    LET loaded == LoadAndCleanData(file)
        y0 == <<Zero, H2_0(total_density, ratio), Zero, Zero, Zero,
                N2_0(total_density, ratio)>>
        reactions == <<"N + H2 -> NH + H", "e + NH3 -> NH2 + H", "H + NH2 -> NH3 + H",
                       "NH + NH2 -> NH3 + N">>
    IN  IF loaded.raised THEN LoadFailed
        ELSE ReducedFigures(power_density, n_clicks, n_e, y0,
                 Odeint(DataPlasmaKinetics(y0, Zero, loaded.df, T_e, T_g, n_e), y0,
                        NumSamples, converged),
                 [i \in 1..4 |-> [j \in 1..5 |->
                     DataGetRateCoefficient(<<reactions[i]>>, loaded.df,
                                            PyFloat(IntNum(j)), T_g).ret]])

\* src/app/callbacks.py: the traces, the heat map and the download from the
\* solution.  With no row returned, sol.y is an empty list and the first
\* trace's sol.y[i] raises IndexError.
ExtendedFigures(n_clicks, n_e, y0, sol, sensitivities) ==
    RunOf(n_e, y0, sol,
          IF sol.y = <<>> THEN CallbackError("IndexError")
          ELSE Figures(Len(sol.y), [kind |-> "none", v |-> Zero], sensitivities,
                       IF n_clicks # 0 THEN ExportSimulationData(sol.y, ExtendedSpecies)
                       ELSE NoDownload))

\* update_dashboard of src/app/callbacks.py (extended variant, solve_ivp with
\* BDF).  The heat map holds four reactions at the T_e of the slider.
ExtendedDashboard(T_e, ratio, power_density, T_g, n_clicks, file, converged, reached) ==
    LET loaded == LoadAndCleanData(file)
        n_e == SahaElectronDensity(T_e.v, power_density)
        y0 == <<Lit(1, 1, 10), Lit(1, 1, 10), H2_0(total_density, ratio), Zero, Zero, Zero,
                N2_0(total_density, ratio)>>
        reactions == <<"N + H2(v) -> H + NH", "NH3 + M -> NH2 + H + M", "NH2 + H -> NH3",
                       "N + NH2 -> NH + NH">>
    IN  IF loaded.raised THEN LoadFailed
        ELSE ExtendedFigures(n_clicks, n_e, y0,
                 SolveIvp(AppPlasmaKinetics(Zero, y0, loaded.df, T_e, T_g, n_e, One), y0,
                          TimePoints, converged, reached),
                 [i \in 1..4 |->
                     <<AppGetRateCoefficient(<<reactions[i]>>, loaded.df, T_e, T_g,
                                             PyInt(Zero)).ret>>])

---------------------------------------------------------------------------
(* Inputs: reaction names, rate cells, plasma states, rate tables *)

MaxRows == 2

F(n, d, k) == NumTok("float", Lit(n, d, k))
I(n) == NumTok("int", IntNum(n))

\* 4e-10*(T_g/300)^0.5*exp(-16600/T_g)
ArrheniusExpr ==
    <<F(4, 1, -10), Op("*"), Op("("), Id("T_g"), Op("/"), I(300), Op(")"), Op("^"),
      F(5, 1, -1), Op("*"), Id("exp"), Op("("), Op("-"), I(16600), Op("/"), Id("T_g"),
      Op(")")>>
\* T_g^2
SquareExpr == <<Id("T_g"), Op("^"), I(2)>>
\* T_e*exp(E_v/T_g)
VibExpr == <<Id("T_e"), Op("*"), Id("exp"), Op("("), Id("E_v"), Op("/"), Id("T_g"), Op(")")>>
\* 1e-3*(Tg/300)^2*exp(-600/Tg), in the spelling src/data/kinetics.py binds
TgExpr ==
    <<F(1, 1, -3), Op("*"), Op("("), Id("Tg"), Op("/"), I(300), Op(")"), Op("^"), I(2),
      Op("*"), Id("exp"), Op("("), Op("-"), I(600), Op("/"), Id("Tg"), Op(")")>>

\* Expressions of the documented grammar: arithmetic, ^, exp(...), T_e, T_g, E_v.
GrammarExprs == {ArrheniusExpr, SquareExpr, VibExpr}

RateCells ==
    {StrCell(<<F(2, 1, -3)>>),                                  \* "2e-3"
     NumCell(Lit(5, 1, -1)),                                    \* 0.5, parsed by pandas
     StrCell(ArrheniusExpr),
     StrCell(SquareExpr),
     StrCell(VibExpr),
     StrCell(TgExpr),
     StrCell(<<Id("Tg"), Op("*")>>),                            \* "Tg*": syntax error
     StrCell(<<I(1), Op("/"), Op("("), Id("T_g"), Op("-"), Id("T_g"), Op(")")>>),
     StrCell(<<I(1), Op("/"), Op("("), Id("Tg"), Op("-"), Id("Tg"), Op(")")>>),
     StrCell(<<Id("Tg"), Op("*"), Id("T_e")>>),                 \* unknown identifier
     StrCell(<<Id("exp"), Op("("), Id("T_g"), Op(")")>>),          \* overflows at 1000
     StrCell(<<Id("exp"), Op("("), Id("Tg"), Op(")")>>),
     StrCell(<<Id("abs"), Op("("), Id("T_g"), Op(")")>>),
     StrCell(<<Id("abs"), Op("("), Id("Tg"), Op(")")>>)}

\* Reaction "A" is stored with every cell; its variant with a trailing blank
\* and a second reaction "B" are stored with a literal and an expression.
StoredNames == {<<"A">>, <<"A", BlankCh>>, <<"B">>}
QueryNames == StoredNames \cup {<<BlankCh, "A">>, <<"C">>}

TeValues == {PyFloat(IntNum(2))}
TgValues == {PyInt(IntNum(300)), PyInt(IntNum(1000))}
EvValues == {PyInt(Zero), PyInt(IntNum(600))}

Rows ==
    {Row(<<"A">>, c) : c \in RateCells}
        \cup {Row(nm, c) : nm \in StoredNames \ {<<"A">>},
                            c \in {StrCell(<<F(7, 1, -2)>>), StrCell(SquareExpr)}}
Tables == UNION {[1..m -> Rows] : m \in 0..MaxRows}

NoCall == [ev |-> "none", reaction |-> <<>>, T_e |-> Dummy, T_g |-> Dummy, E_v |-> Dummy]
NoDens ==
    [prev |-> [called |-> FALSE, T_e |-> Zero, power_density |-> Zero, n_e |-> Zero],
     cur |-> [called |-> FALSE, T_e |-> Zero, power_density |-> Zero, n_e |-> Zero]]

\* Electron temperatures whose half has an exact square root (0.5, 2, 4.5, 8
\* eV), so that (T_e / 2) ** 1.5 is exact; power densities on both sides of
\* the floor.
DensTeValues == {Lit(5, 1, -1), IntNum(2), Lit(45, 1, -1), IntNum(8)}
PowerValues == {Zero, Lit(5, 1, -2), Lit(1, 1, -1), Lit(5, 1, -1), One, IntNum(10)}
NoSim == [pc |-> "idle"]
NoKinCall ==
    [called |-> FALSE, variant |-> "", y |-> <<>>, T_e |-> Dummy, T_g |-> Dummy,
     n_e |-> Zero, lookups |-> <<>>, fault |-> "", dydt |-> <<>>]
NoKin == [prev |-> NoKinCall, cur |-> NoKinCall]

---------------------------------------------------------------------------
(* The evaluators as a state machine: a table is loaded, then any number   *)
(* of get_rate_coefficient calls are made against it, one at a time: the   *)
(* caller takes the value returned before it calls again.                  *)

InitEval ==
    /\ df \in Tables
    /\ call = NoCall
    /\ result = Dummy
    /\ raised = FALSE
    /\ log = <<>>
    /\ resolved = {}
    /\ exc = ""
    /\ dens = NoDens
    /\ sim = NoSim
    /\ kin = NoKin

\* The call ends as r says: its value, its events, the names it resolved.
Ends(r) ==
    /\ result' = r.ret
    /\ raised' = r.raised
    /\ log' = r.log
    /\ resolved' = r.names
    /\ exc' = r.fault

CallApp ==
    /\ call = NoCall
    /\ \E reaction \in QueryNames, T_e \in TeValues, T_g \in TgValues, E_v \in EvValues :
        /\ call' = [ev |-> "app", reaction |-> reaction, T_e |-> T_e, T_g |-> T_g, E_v |-> E_v]
        /\ Ends(AppGetRateCoefficient(reaction, df, T_e, T_g, E_v))
        /\ UNCHANGED <<df, dens, sim, kin>>

CallData ==
    /\ call = NoCall
    /\ \E reaction \in QueryNames, T_e \in TeValues, T_g \in TgValues :
        /\ call' = [ev |-> "data", reaction |-> reaction, T_e |-> T_e, T_g |-> T_g,
                    E_v |-> Dummy]
        /\ Ends(DataGetRateCoefficient(reaction, df, T_e, T_g))
        /\ UNCHANGED <<df, dens, sim, kin>>

\* The caller has used the value; the evaluator keeps nothing of the call.
Return ==
    /\ call # NoCall
    /\ call' = NoCall
    /\ result' = Dummy
    /\ raised' = FALSE
    /\ log' = <<>>
    /\ resolved' = {}
    /\ exc' = ""
    /\ UNCHANGED <<df, dens, sim, kin>>

NextEval == CallApp \/ CallData \/ Return

Spec == InitEval /\ [][NextEval]_vars

---------------------------------------------------------------------------
(* Properties of the evaluators *)

Called == call.ev \in {"app", "data"}

\* Row i is the row that a call naming df[i].Reaction as it is stored is
\* about: no earlier row carries that name, blanks aside.
IsRowOf(i, name) ==
    /\ df[i].Reaction = name
    /\ \A j \in 1..(i - 1) : Strip(df[j].Reaction) # Strip(name)

\* A rate field that is a purely numeric literal, and the number it denotes.
IsNumericCell(c) == ~c.isstr \/ (Len(c.toks) = 1 /\ c.toks[1].t = "num")
NumericValue(c) == IF c.isstr THEN c.toks[1].v ELSE c.num.v

IsZero(val) == val.kind = "num" /\ val.v = Zero
Logged(levels) == \E e \in 1..Len(log) : log[e].level \in levels

\* C1: a call that names a reaction of the table whose rate field is a purely
\* numeric literal returns exactly that number, whatever T_e, T_g and E_v
\* are, in either evaluator.
C1_NumericRateReturned ==
    Called =>
        \A i \in 1..Len(df) :
            IsRowOf(i, call.reaction) /\ IsNumericCell(df[i].rate)
                => /\ ~raised
                   /\ result.kind = "num"
                   /\ result.v = NumericValue(df[i].rate)

\* C1 witness: the app evaluator was called at T_g = 1000 for the second
\* row of the table, whose rate is a numeric string.
C1_Witness ==
    /\ call.ev = "app"
    /\ call.T_g = PyInt(IntNum(1000))
    /\ Len(df) = 2
    /\ IsRowOf(2, call.reaction)
    /\ df[2].rate.isstr
    /\ IsNumericCell(df[2].rate)
    /\ df[1].rate # df[2].rate

\* A name no row of the table carries (names compared with blanks trimmed).
Absent(name) == \A i \in 1..Len(df) : Strip(df[i].Reaction) # Strip(name)

\* C2: a call that names a reaction absent from the table returns 0.0, logs
\* a warning and raises nothing, in either evaluator.
C2_AbsentReactionIsZero ==
    Called /\ Absent(call.reaction)
        => ~raised /\ IsZero(result) /\ Logged({"WARNING"})

\* C2 witness: the data evaluator was called for a reaction absent from a
\* table of two rows.
C2_Witness ==
    /\ call.ev = "data"
    /\ Len(df) = 2
    /\ Absent(call.reaction)

\* The evaluation left the range of the floats: the value is inf or nan.
Overflowed == result.kind = "num" /\ ~Finite(result.v)

\* C3: no call ends in an exception at its caller; a call in which a cast or
\* the evaluation of the expression failed (syntax error, unknown
\* identifier, type error, domain error such as a division by zero or an
\* overflow) returns 0.0 and logs an event of warning severity or above.
C3_FailureDegradesToZero ==
    Called =>
        /\ ~raised
        /\ (exc # "" \/ Overflowed) => IsZero(result) /\ Logged({"WARNING", "ERROR"})

\* C4: evaluating 4e-10*(T_g/300)^0.5*exp(-16600/T_g) at T_g = 300 returns
\* 4e-10.
C4_ArrheniusAtReference ==
    Called /\ call.T_g = PyInt(IntNum(300)) =>
        \A i \in 1..Len(df) :
            IsRowOf(i, call.reaction) /\ df[i].rate = StrCell(ArrheniusExpr)
                => result.kind = "num" /\ result.v = Lit(4, 1, -10)

\* The arithmetic value of an expression of the documented grammar: ^ is
\* the power operator, exp the exponential, T_e, T_g, E_v the plasma state.
GrammarNamespace(T_e, T_g, E_v) ==
    [g \in {"T_e", "T_g", "E_v", "exp", "__builtins__"} |->
        CASE g = "T_e" -> T_e
          [] g = "T_g" -> T_g
          [] g = "E_v" -> E_v
          [] g = "exp" -> PyFunc("exp")
          [] OTHER -> PyModule("")]
ArithmeticValue(toks, T_e, T_g, E_v) ==
    PyEval(Replace(toks, Op("^"), <<Op("**")>>), GrammarNamespace(T_e, T_g, E_v)).val.v

\* C5: a call for a reaction whose rate is a well-formed expression of the
\* grammar (arithmetic, ^, exp(...), T_e, T_g, E_v) returns the arithmetic
\* value of the expression, not the degraded 0.0, in either evaluator.
C5_GrammarExpressionEvaluated ==
    Called =>
        \A i \in 1..Len(df) :
            IsRowOf(i, call.reaction) /\ df[i].rate.isstr
                                      /\ df[i].rate.toks \in GrammarExprs
                => /\ exc = ""
                   /\ result.kind = "num"
                   /\ result.v = ArithmeticValue(df[i].rate.toks, call.T_e, call.T_g,
                                                 call.E_v)

\* C6: the names an expression of the table resolves are the allow-listed
\* variables (in either evaluator's spelling) and the exponential function,
\* nothing else: no builtin, no module.
C6_OnlyAllowListedNames ==
    resolved \subseteq {"T_e", "T_g", "E_v", "Te", "Tg", "exp"}

---------------------------------------------------------------------------
(* The electron density as a state machine: calls, of which the last two   *)
(* are kept for comparison.                                                *)

InitDensity ==
    /\ df = <<>>
    /\ call = NoCall
    /\ result = Dummy
    /\ raised = FALSE
    /\ log = <<>>
    /\ resolved = {}
    /\ exc = ""
    /\ dens = NoDens
    /\ sim = NoSim
    /\ kin = NoKin

CallDensity ==
    \E T_e \in DensTeValues, power_density \in PowerValues :
        /\ dens' = [prev |-> dens.cur,
                    cur |-> [called |-> TRUE, T_e |-> T_e,
                             power_density |-> power_density,
                             n_e |-> SahaElectronDensity(T_e, power_density)]]
        /\ UNCHANGED <<df, call, result, raised, log, resolved, exc, sim, kin>>

NextDensity == CallDensity

SpecDensity == InitDensity /\ [][NextDensity]_vars

\* C7: for T_e > 0 and power_density >= 0 the value returned is never below
\* the floor 1e10.
C7_NeverBelowFloor ==
    dens.cur.called => ~NumLess(dens.cur.n_e, Lit(1, 1, 10))

\* C7 witness: a call whose unclamped density 1e11 * 0.05 * (2/2)^1.5 = 5e9
\* lies below the floor.
C7_Witness ==
    /\ dens.cur.called
    /\ dens.cur.T_e = IntNum(2)
    /\ dens.cur.power_density = Lit(5, 1, -2)

\* Two calls at the same T_e, the earlier one at the smaller power density.
SameTeRisingPower ==
    /\ dens.prev.called
    /\ dens.cur.called
    /\ dens.prev.T_e = dens.cur.T_e
    /\ NumLess(dens.prev.power_density, dens.cur.power_density)

\* C8 as stated: at a fixed T_e the value returned is strictly larger for
\* the larger power density.
C8_StrictlyIncreasing ==
    SameTeRisingPower => NumLess(dens.prev.n_e, dens.cur.n_e)

\* C8 amended: at a fixed T_e the value returned for the larger power
\* density is at least the value for the smaller one, and is strictly
\* larger whenever it lies above the floor 1e10.
C8_IncreasingAboveFloor ==
    SameTeRisingPower =>
        /\ NumLeq(dens.prev.n_e, dens.cur.n_e)
        /\ NumLess(Lit(1, 1, 10), dens.cur.n_e) => NumLess(dens.prev.n_e, dens.cur.n_e)

\* C8 witness: two calls at T_e = 2, the first clamped to the floor (power
\* density 0.05), the second above it (power density 1).
C8_Witness ==
    /\ SameTeRisingPower
    /\ dens.cur.T_e = IntNum(2)
    /\ dens.prev.power_density = Lit(5, 1, -2)
    /\ dens.cur.power_density = One
    /\ NumLess(Lit(1, 1, 10), dens.cur.n_e)

---------------------------------------------------------------------------
(* The dashboards as a state machine: loading the page requests one run of *)
(* the callback with the sliders' initial values; afterwards every slider  *)
(* change and every click on the export button requests another with the   *)
(* current values of all five inputs.  The callback answers a request, and *)
(* the browser draws the answer before it sends the next.  Every run reads *)
(* the rate table from the same file, whose parsed content df holds here.  *)

MaxClicks == 1

\* The files the dashboards may find, as read_csv parses them.  The arrows
\* of the reduced variant's names are written -> here.
NumericRates ==
    <<Row(<<"N + H2 -> NH + H">>, NumCell(Lit(1, 1, -12))),
      Row(<<"e + NH3 -> NH2 + H">>, NumCell(Lit(2, 1, -9))),
      Row(<<"H2 + NH2 -> NH3 + H">>, NumCell(Lit(3, 1, -11))),
      Row(<<"NH + NH2 -> NH3 + N">>, NumCell(Lit(4, 1, -11))),
      Row(<<"e + NH3 -> NH + H2">>, NumCell(Lit(5, 1, -10)))>>
ReducedRates ==
    <<Row(<<"N + H2 -> NH + H">>, StrCell(<<F(1, 1, -12)>>)),
      Row(<<"e + NH3 -> NH2 + H">>, StrCell(<<F(2, 1, -9)>>)),
      Row(<<"H2 + NH2 -> NH3 + H">>, StrCell(<<F(3, 1, -11)>>)),
      Row(<<"NH + NH2 -> NH3 + N">>, StrCell(<<F(4, 1, -11)>>)),
      Row(<<"e + NH3 -> NH + H2">>, StrCell(<<F(5, 1, -10)>>)),
      Row(<<"H + NH2 -> NH3 + H">>, StrCell(TgExpr)),
      Row(<<"N2 + e -> N2+ + 2e">>, StrCell(<<>>))>>
ExtendedRates ==
    <<Row(<<"N + H2(v) -> H + NH">>, StrCell(VibExpr)),
      Row(<<"NH3 + M -> NH2 + H + M">>, StrCell(<<F(1, 1, -15)>>)),
      Row(<<"NH2 + H -> NH3">>, StrCell(<<F(2, 1, -11)>>)),
      Row(<<"N + NH2 -> NH + NH">>, StrCell(<<F(3, 1, -11)>>)),
      Row(<<"N + H -> NH">>, StrCell(<<F(4, 1, -13)>>)),
      Row(<<"NH + H -> NH2">>, StrCell(<<F(5, 1, -12)>>)),
      Row(<<"H + NH2 -> H2 + NH">>, StrCell(<<F(6, 1, -12)>>))>>
SimTables == {<<>>, NumericRates, ReducedRates, ExtendedRates}

\* Slider positions: T_e in 1..5 eV, ratio in 0.1..1, power density in
\* 0.1..10 W/cm3, T_g in 300..1000 K.
SliderDefaults ==
    [T_e |-> PyFloat(IntNum(2)), ratio |-> Lit(33, 1, -2), power_density |-> One,
     T_g |-> PyInt(IntNum(300)), n_clicks |-> 0]
Sliders ==
    [T_e : {PyFloat(IntNum(2)), PyFloat(Lit(45, 1, -1))},
     ratio : {Lit(1, 1, -1), Lit(33, 1, -2), One},
     power_density : {Lit(1, 1, -1), One},
     T_g : {PyInt(IntNum(300)), PyInt(IntNum(1000))},
     n_clicks : 0..MaxClicks]

\* Rows a failed solve_ivp run may have reached.
ReachedRows == {0, 1, TimePoints \div 2}

NoRun == [n_e |-> Zero, y0 |-> <<>>, status |-> "none", sol |-> <<>>,
          response |-> [kind |-> "none", points |-> 0, efficiency |-> "", heatmap |-> <<>>,
                        download |-> NoDownload]]

\* Every way one run of the deployed callback may end.
Runs(app, ui, table) ==
    IF app = "reduced"
    THEN {ReducedDashboard(ui.T_e, ui.ratio, ui.power_density, ui.T_g, ui.n_clicks, table,
                           n_e, converged) :
              n_e \in PhysicalElectronDensity(ui.T_e.v, Lit(1558, 1, -2), Lit(1, 1, 16)),
              converged \in BOOLEAN}
    ELSE {ExtendedDashboard(ui.T_e, ui.ratio, ui.power_density, ui.T_g, ui.n_clicks, table,
                            converged, reached) :
              converged \in BOOLEAN, reached \in ReachedRows}

InitSim ==
    /\ df \in SimTables
    /\ call = NoCall
    /\ result = Dummy
    /\ raised = FALSE
    /\ log = <<>>
    /\ resolved = {}
    /\ exc = ""
    /\ dens = NoDens
    /\ kin = NoKin
    /\ \E app \in {"reduced", "extended"} :
        sim = [pc |-> "start", app |-> app, ui |-> SliderDefaults, trigger |-> "none",
               run |-> NoRun]

\* The browser sends the inputs: the request is on its way to the callback.
Request(ui, trigger) ==
    /\ sim' = [sim EXCEPT !.pc = "requested", !.ui = ui, !.trigger = trigger]
    /\ UNCHANGED <<df, call, result, raised, log, resolved, exc, dens, kin>>

PageLoad ==
    /\ sim.pc = "start"
    /\ Request(sim.ui, "load")

SliderChange ==
    /\ sim.pc = "ready"
    /\ \E ui \in Sliders :
        /\ ui.n_clicks = sim.ui.n_clicks
        /\ Cardinality({f \in {"T_e", "ratio", "power_density", "T_g"} :
                            ui[f] # sim.ui[f]}) = 1
        /\ Request(ui, "slider")

ExportClick ==
    /\ sim.pc = "ready"
    /\ sim.ui.n_clicks < MaxClicks
    /\ Request([sim.ui EXCEPT !.n_clicks = @ + 1], "click")

\* The callback runs with the inputs of the request and answers.
UpdateDashboard ==
    /\ sim.pc = "requested"
    /\ \E r \in Runs(sim.app, sim.ui, df) : sim' = [sim EXCEPT !.pc = "responded", !.run = r]
    /\ UNCHANGED <<df, call, result, raised, log, resolved, exc, dens, kin>>

\* The browser has drawn the answer; nothing of the run stays on the server.
Deliver ==
    /\ sim.pc = "responded"
    /\ sim' = [sim EXCEPT !.pc = "ready", !.trigger = "none", !.run = NoRun]
    /\ UNCHANGED <<df, call, result, raised, log, resolved, exc, dens, kin>>

NextSim == PageLoad \/ SliderChange \/ ExportClick \/ UpdateDashboard \/ Deliver

SpecSim == InitSim /\ [][NextSim]_vars

---------------------------------------------------------------------------
(* Properties of the dashboards *)

NH3At(i) == sim.run.sol[i].y[5]

AllFivePositive(table) ==
    \A name \in {"N + H2 -> NH + H", "e + NH3 -> NH2 + H", "H2 + NH2 -> NH3 + H",
                 "NH + NH2 -> NH3 + N", "e + NH3 -> NH + H2"} :
        \E i \in DOMAIN table :
            /\ table[i].Reaction = <<name>>
            /\ IsNumericCell(table[i].rate)
            /\ Sign(NumericValue(table[i].rate)) = 1

\* The end-to-end scenario: the reduced dashboard has run with T_e = 2.0,
\* T_g = 300, ratio 0.33 on a table holding the five reactions with
\* positive rates, and the solver has delivered all its samples.
ScenarioRun ==
    /\ sim.pc = "responded"
    /\ sim.app = "reduced"
    /\ sim.ui.T_e = PyFloat(IntNum(2))
    /\ sim.ui.T_g = PyInt(IntNum(300))
    /\ sim.ui.ratio = Lit(33, 1, -2)
    /\ AllFivePositive(df)
    /\ sim.run.status = "ok"
    /\ \A i \in DOMAIN sim.run.sol : sim.run.sol[i].known

\* C9: in the end-to-end scenario of the reduced variant the NH3
\* concentration never decreases from one sample to the next and is
\* strictly greater than 0 at the final sample.
C9_AmmoniaProduced ==
    ScenarioRun =>
        /\ \A i \in 1..(NumSamples - 1) : NumLeq(NH3At(i), NH3At(i + 1))
        /\ NumLess(Zero, NH3At(NumSamples))

\* C10: a run of update_dashboard whose solver did not converge answers
\* with a failure, never with the figures and the export built from the
\* solver's output.
C10_SolverFailureReported ==
    (sim.pc = "responded" /\ sim.run.status = "failed") =>
        sim.run.response.kind = "error"

---------------------------------------------------------------------------
(* The kinetics right-hand sides as a state machine: a rate table is       *)
(* loaded; then plasma_kinetics of either variant is called any number of  *)
(* times, as a solver or a test would, with get_rate_coefficient calls of  *)
(* other callers in between.  The last two plasma_kinetics calls are kept   *)
(* for comparison.                                                         *)

\* What a plasma_kinetics call ends in: an exception at the caller, or the
\* list of derivatives.
KinOutcome(fault, dydt) == [fault |-> fault, dydt |-> dydt]

\* plasma_kinetics of src/data/kinetics.py as a call: the unpacking
\* N, H2, NH, NH2, NH3, N2 = y raises ValueError on any other length.
ReducedKineticsCall(y, table, T_e, T_g, n_e) ==
    IF Len(y) # 6 THEN KinOutcome("ValueError", <<>>)
    ELSE KinOutcome("", DataPlasmaKinetics(y, Zero, table, T_e, T_g, n_e))

\* plasma_kinetics of src/app/kinetics.py as a call: seven species are
\* unpacked, and -9 / T_e raises ZeroDivisionError for the Python number 0.
ExtendedKineticsCall(y, table, T_e, T_g, n_e) ==
    IF Len(y) # 7 THEN KinOutcome("ValueError", <<>>)
    ELSE IF T_e.v = Zero THEN KinOutcome("ZeroDivisionError", <<>>)
    ELSE KinOutcome("", AppPlasmaKinetics(Zero, y, table, T_e, T_g, n_e, One))

\* The get_rate_coefficient calls a plasma_kinetics call makes: the name
\* and the temperatures handed over.
ExtendedLookupsMade(T_e, T_g) ==
    [i \in 1..7 |-> [name |-> ExtendedLookups[i], T_e |-> T_e, T_g |-> T_g]]

\* The tables as load_and_clean_data hands them on.
KinTables == {LoadAndCleanData(f).df : f \in {<<>>, ReducedRates, ExtendedRates}}

\* Concentration vectors: the initial state of the reduced dashboard at
\* ratio 1, a reduced state without H2, NH and NH3, and an extended state
\* without NH and NH3.
KinY ==
    {<<Zero, H2_0(total_density, One), Zero, Zero, Zero, N2_0(total_density, One)>>,
     <<Lit(1, 1, 10), Zero, Zero, Lit(1, 1, 10), Zero, Lit(1, 1, 16)>>,
     <<Lit(1, 1, 10), Lit(1, 1, 10), Lit(1, 1, 16), Zero, Lit(1, 1, 10), Zero,
       Lit(1, 1, 16)>>}
\* Plasma states: one the sliders can give, and two with a non-positive T_e.
KinPlasma ==
    {[T_e |-> PyFloat(IntNum(2)), T_g |-> PyInt(IntNum(1000))],
     [T_e |-> PyFloat(Zero), T_g |-> PyInt(IntNum(300))],
     [T_e |-> PyFloat(IntNum(-1)), T_g |-> PyInt(IntNum(300))]}

InitKinetics ==
    /\ df \in KinTables
    /\ call = NoCall
    /\ result = Dummy
    /\ raised = FALSE
    /\ log = <<>>
    /\ resolved = {}
    /\ exc = ""
    /\ dens = NoDens
    /\ sim = NoSim
    /\ kin = NoKin

\* The call is over: its arguments as they are after it, and its outcome.
KinEnds(variant, y, p, n_e, lookups, out) ==
    /\ kin' = [prev |-> kin.cur,
               cur |-> [called |-> TRUE, variant |-> variant, y |-> y, T_e |-> p.T_e,
                        T_g |-> p.T_g, n_e |-> n_e, lookups |-> lookups,
                        fault |-> out.fault, dydt |-> out.dydt]]
    /\ UNCHANGED <<df, call, result, raised, log, resolved, exc, dens, sim>>

CallReducedKinetics ==
    \E y \in KinY, p \in KinPlasma :
        KinEnds("reduced", y, p, Lit(1, 1, 10),
                IF Len(y) = 6 THEN ReducedLookups(p.T_e, p.T_g) ELSE <<>>,
                ReducedKineticsCall(y, df, p.T_e, p.T_g, Lit(1, 1, 10)))

CallExtendedKinetics ==
    \E y \in KinY, p \in KinPlasma :
        KinEnds("extended", y, p, Lit(1, 1, 10),
                IF Len(y) = 7 THEN ExtendedLookupsMade(p.T_e, p.T_g) ELSE <<>>,
                ExtendedKineticsCall(y, df, p.T_e, p.T_g, Lit(1, 1, 10)))

NextKinetics == CallReducedKinetics \/ CallExtendedKinetics \/ CallApp \/ CallData \/ Return

SpecKinetics == InitKinetics /\ [][NextKinetics]_vars

\* The table with every stored name trimmed, and the outcome of the call on
\* record had it been made with the trimmed name on that table.
TrimmedTable ==
    [i \in 1..Len(df) |-> [df[i] EXCEPT !.Reaction = Strip(df[i].Reaction)]]
TrimmedCall ==
    IF call.ev = "app"
    THEN AppGetRateCoefficient(Strip(call.reaction), TrimmedTable, call.T_e, call.T_g,
                               call.E_v)
    ELSE DataGetRateCoefficient(Strip(call.reaction), TrimmedTable, call.T_e, call.T_g)

\* C15: in both evaluators a call returns what the call with the name
\* trimmed returns on the table with the stored names trimmed: leading and
\* trailing blanks of the queried name and of the stored names make no
\* difference.
C15_LookupIgnoresBlanks ==
    Called => result = TrimmedCall.ret /\ raised = TrimmedCall.raised

---------------------------------------------------------------------------
(* Properties of the kinetics right-hand sides.                            *)

\* A plasma_kinetics call has been made; kin.cur holds it.
KinCalled == kin.cur.called
SpeciesCount(variant) == IF variant = "reduced" THEN 6 ELSE 7
\* The preconditions a caller can break: T_e not positive, a rate table
\* without rows, a concentration vector of the other variant's length.
InvalidPrecondition(c) ==
    \/ Sign(c.T_e.v) <= 0
    \/ df = <<>>
    \/ Len(c.y) # SpeciesCount(c.variant)

\* C11: a plasma_kinetics call made under an invalid precondition
\* (non-positive T_e, empty rate table, species vector of the wrong length)
\* ends in an exception and returns no derivatives for a trajectory.
C11_InvalidPreconditionFails ==
    KinCalled /\ InvalidPrecondition(kin.cur) => kin.cur.fault # ""

\* Two calls of the same variant with the same arguments.
SameArguments(a, b) ==
    /\ a.variant = b.variant
    /\ a.y = b.y
    /\ a.T_e = b.T_e
    /\ a.T_g = b.T_g
    /\ a.n_e = b.n_e
Repeated == kin.prev.called /\ kin.cur.called /\ SameArguments(kin.prev, kin.cur)

Coefficients(c) ==
    [i \in 1..Len(c.lookups) |->
        IF c.variant = "reduced"
        THEN DataGetRateCoefficient(<<c.lookups[i].name>>, df, c.lookups[i].T_e,
                                    c.lookups[i].T_g).ret.v
        ELSE AppGetRateCoefficient(<<c.lookups[i].name>>, df, c.lookups[i].T_e,
                                   c.lookups[i].T_g, PyInt(Zero)).ret.v]

\* The sign of a sum of unlike terms: that of its terms when they agree,
\* otherwise that of their exact total.
RECURSIVE PolyTotal(_)
PolyTotal(p) ==
    IF p = {} THEN Zero
    ELSE LET m == CHOOSE m \in p : TRUE IN NumAdd(m, PolyTotal(p \ {m}))
PolySign(p) ==
    IF p = {} THEN 0
    ELSE IF \A m \in p : m.n > 0 THEN 1
    ELSE IF \A m \in p : m.n < 0 THEN -1
    ELSE Sign(PolyTotal(p))

\* Concentrations, electron density and rate coefficients are all >= 0.
NonNegativeState(c) ==
    /\ \A i \in 1..Len(c.y) : Sign(c.y[i]) >= 0
    /\ Sign(c.n_e) >= 0
    /\ \A i \in 1..Len(c.lookups) : Sign(Coefficients(c)[i]) >= 0

\* C13: when plasma_kinetics is called on a state whose concentrations,
\* electron density and rate coefficients are all non-negative, every
\* species whose concentration is 0 gets a derivative >= 0.
C13_NoLossFromZero ==
    KinCalled /\ kin.cur.fault = "" /\ NonNegativeState(kin.cur)
        => \A i \in 1..Len(kin.cur.y) :
               kin.cur.y[i] = Zero => PolySign(kin.cur.dydt[i]) >= 0

\* C14: in the reduced variant the N2 derivative plasma_kinetics returns is
\* 0, whatever the state, the rate table and the plasma state.
C14_N2Inert ==
    KinCalled /\ kin.cur.variant = "reduced" /\ kin.cur.fault = ""
        => kin.cur.dydt[6] = {}
\* A reduced call with N2 and electrons present and another species changing.
C14_Witness ==
    /\ KinCalled /\ kin.cur.variant = "reduced" /\ kin.cur.fault = ""
    /\ Sign(kin.cur.y[6]) > 0
    /\ Sign(kin.cur.n_e) > 0
    /\ \E i \in 1..5 : kin.cur.dydt[i] # {}

\* The reactions of each variant as the rate table names them: reactants
\* and products.  M is a third body, H2(v) is H2, e is an electron; the two
\* dissociation channels of the extended variant come last.
ReducedReactions ==
    <<[re |-> <<"N", "H2">>, pr |-> <<"NH", "H">>],
      [re |-> <<"e", "NH3">>, pr |-> <<"NH2", "H", "e">>],
      [re |-> <<"H2", "NH2">>, pr |-> <<"NH3", "H">>],
      [re |-> <<"NH", "NH2">>, pr |-> <<"NH3", "N">>],
      [re |-> <<"e", "NH3">>, pr |-> <<"NH", "H2", "e">>]>>
ExtendedReactions ==
    <<[re |-> <<"N", "H2">>, pr |-> <<"H", "NH">>],
      [re |-> <<"NH3", "M">>, pr |-> <<"NH2", "H", "M">>],
      [re |-> <<"NH2", "H">>, pr |-> <<"NH3">>],
      [re |-> <<"N", "NH2">>, pr |-> <<"NH", "NH">>],
      [re |-> <<"N", "H">>, pr |-> <<"NH">>],
      [re |-> <<"NH", "H">>, pr |-> <<"NH2">>],
      [re |-> <<"H", "NH2">>, pr |-> <<"H2", "NH">>],
      [re |-> <<"e", "N2">>, pr |-> <<"N", "N", "e">>],
      [re |-> <<"e", "H2">>, pr |-> <<"H", "H", "e">>]>>
ReactionsOf(c) == IF c.variant = "reduced" THEN ReducedReactions ELSE ExtendedReactions
SpeciesOf(c) == IF c.variant = "reduced" THEN ReducedSpecies ELSE ExtendedSpecies

\* The rate coefficient of each reaction as the call uses it: the value
\* looked up, with the scale factors and the dissociation coefficients of
\* the extended variant (catalyst_factor is 1).
RateCoefficients(c) ==
    IF c.variant = "reduced" THEN Coefficients(c)
    ELSE [i \in 1..9 |->
            IF i = 2 THEN NumMul(Coefficients(c)[i], Lit(1, 1, -2))
            ELSE IF i <= 7 THEN NumMul(Coefficients(c)[i], Lit(1, 1, 3))
            ELSE NumMul(Lit(1, 1, -9),
                        NumExp(NumDiv(IntNum(IF i = 8 THEN -9 ELSE -8), c.T_e.v)))]

\* The concentration a reactant contributes: n_e for an electron, the
\* species' own entry of y, and 1 for the third body M, which the
\* coefficient absorbs.
Concentration(c, s) ==
    IF s = "e" THEN c.n_e
    ELSE IF \E i \in 1..Len(c.y) : SpeciesOf(c)[i] = s
         THEN c.y[CHOOSE i \in 1..Len(c.y) : SpeciesOf(c)[i] = s]
         ELSE One
RECURSIVE Product(_, _)
Product(c, reactants) ==
    IF reactants = <<>> THEN One
    ELSE NumMul(Concentration(c, Head(reactants)), Product(c, Tail(reactants)))
Count(s, side) == Cardinality({i \in 1..Len(side) : side[i] = s})

\* Mass action: the rate of reaction r is k_r times the product of its
\* reactants; the derivative of species s is the sum of the rates weighted
\* by (occurrences among the products) - (occurrences among the reactants).
MassActionRate(c, r) == NumMul(RateCoefficients(c)[r], Product(c, ReactionsOf(c)[r].re))
MassAction(c) ==
    [s \in 1..Len(c.y) |->
        SumOf([r \in 1..Len(ReactionsOf(c)) |->
                  NumMul(IntNum(Count(SpeciesOf(c)[s], ReactionsOf(c)[r].pr)
                                - Count(SpeciesOf(c)[s], ReactionsOf(c)[r].re)),
                         MassActionRate(c, r))])]

\* Two sums of unlike terms are equal when their difference cancels.
RECURSIVE PolyAdd(_, _)
PolyAdd(p, q) ==
    IF q = {} THEN p
    ELSE LET m == CHOOSE m \in q : TRUE IN PolyAdd(PolyInsert(m, p), q \ {m})
PolyScale(a, p) == PolyAdd({}, {NumMul(a, m) : m \in p})
PolyEqual(p, q) == PolyAdd(p, PolyScale(IntNum(-1), q)) = {}

\* C16: every derivative plasma_kinetics returns is the mass-action sum:
\* each reaction contributes its coefficient times the product of its own
\* reactants (n_e for an electron), with the stoichiometric coefficient of
\* the species in that reaction.
C16_MassAction ==
    KinCalled /\ kin.cur.fault = ""
        => \A s \in 1..Len(kin.cur.y) :
               PolyEqual(kin.cur.dydt[s], MassAction(kin.cur)[s])

\* C17: every lookup of a reduced plasma_kinetics call hands the caller's
\* T_e on as the electron temperature and the caller's T_g as the gas
\* temperature.
C17_LookupsUseCallerTemperatures ==
    KinCalled /\ kin.cur.variant = "reduced" /\ kin.cur.fault = ""
        => \A i \in 1..Len(kin.cur.lookups) :
               /\ kin.cur.lookups[i].T_e = kin.cur.T_e
               /\ kin.cur.lookups[i].T_g = kin.cur.T_g

\* Atoms of nitrogen and of hydrogen in each species of the extended
\* variant, [N, H, H2, NH, NH2, NH3, N2].
NitrogenAtoms == <<1, 0, 0, 1, 1, 1, 2>>
HydrogenAtoms == <<0, 1, 2, 1, 2, 3, 0>>
\* d/dt of the element total: the derivatives weighted by the atom counts.
RECURSIVE ElementRate(_, _, _)
ElementRate(atoms, dydt, i) ==
    IF i = 0 THEN {}
    ELSE PolyAdd(ElementRate(atoms, dydt, i - 1), PolyScale(IntNum(atoms[i]), dydt[i]))

\* C18: the derivatives of the extended variant conserve atoms:
\* d/dt(N + NH + NH2 + NH3 + 2*N2) = 0 and
\* d/dt(H + 2*H2 + NH + 2*NH2 + 3*NH3) = 0.
C18_AtomsConserved ==
    KinCalled /\ kin.cur.variant = "extended" /\ kin.cur.fault = ""
        => /\ ElementRate(NitrogenAtoms, kin.cur.dydt, 7) = {}
           /\ ElementRate(HydrogenAtoms, kin.cur.dydt, 7) = {}

---------------------------------------------------------------------------
(* Properties of the dashboard callbacks.                                  *)

\* The callback has answered a request and built its initial state.
Simulated == sim.pc = "responded" /\ sim.run.y0 # <<>>
\* H2 and N2 in the initial state of either variant: N2 is the last
\* species, H2 the fifth from the end.
InitialN2 == sim.run.y0[Len(sim.run.y0)]
InitialH2 == sim.run.y0[Len(sim.run.y0) - 4]

\* C19: the initial concentrations update_dashboard builds from the ratio
\* slider r add up to the total density, and N2_0 : H2_0 is r, that is
\* N2_0 = r * H2_0.
C19_FeedRatio ==
    Simulated
        => /\ NumAdd(InitialN2, InitialH2) = total_density
           /\ InitialN2 = NumMul(sim.ui.ratio, InitialH2)

\* C20: a response to a slider change carries no download, whether or not
\* the export button was clicked before; only the response to a click does.
C20_DownloadOnlyOnClick ==
    sim.pc = "responded" /\ sim.trigger # "click"
        => sim.run.response.download = NoDownload

====
